---- MODULE Spec2Model ----
(***************************************************************************)
(* A model of SceneManager (Source/SceneManager.cpp): the texture catalog, *)
(* the material catalog, the uniform uploads routed through the shader     *)
(* manager and the draw calls of the fixed scene.                          *)
(*                                                                         *)
(* Numbers.  Float literals of the source are kept as integers: scales,    *)
(* translations and material coefficients in hundredths (0.73 is 73),      *)
(* light parameters in units of 10^-5 (0.994 * 0.51 is 994 * 51).  Every   *)
(* uniform value is a tuple of components, a scalar being a 1-tuple; a     *)
(* uniform never written is the empty tuple.                               *)
(*                                                                         *)
(* Undefined behaviour.  Three places of the source have it: a catalog     *)
(* write at an index past the array (no bounds check in CreateGLTexture),  *)
(* a call through a null shader manager (SetShaderMaterial and             *)
(* SetupSceneLights do not test the pointer) and a read of the             *)
(* uninitialised local `material` in SetShaderMaterial.  Each is a         *)
(* nondeterministic choice, drawn per call of an operation as an oracle o. *)
(***************************************************************************)
EXTENDS Integers, Sequences, FiniteSets, TLC

VARIABLES
    m_pShaderManager,   \* TRUE: a shader manager is attached; FALSE: NULL
    m_basicMeshes,      \* TRUE: the ShapeMeshes object exists
    m_textureIDs,       \* the texture catalog: index -> [ID, tag]
    m_loadedTextures,   \* number of catalog entries in use
    m_objectMaterials,  \* the material catalog, a sequence
    glNextTexture,      \* the next texture name glGenTextures hands out
    glActiveUnit,       \* the active texture unit
    glUnitBinding,      \* texture unit -> texture bound to GL_TEXTURE_2D (0: none)
    heapImages,         \* decoded pixel buffers not yet freed
    uniforms,           \* the shader program's uniforms: name -> value
    meshesLoaded,       \* mesh kinds the mesh library has loaded
    log,                \* the calls the last operation made, in order
    ret,                \* the last operation and what it returned
    crashed,            \* the process has faulted
    ub,                 \* kinds of undefined behaviour executed so far
    files,              \* the image files: path -> channel count (0: cannot be decoded)
    everLoaded,         \* history: tags for which CreateGLTexture returned true
    directLoads         \* number of CreateGLTexture calls made by the host itself

vars == <<m_pShaderManager, m_basicMeshes, m_textureIDs, m_loadedTextures,
          m_objectMaterials, glNextTexture, glActiveUnit, glUnitBinding,
          heapImages, uniforms, meshesLoaded, log, ret, crashed, ub, files,
          everLoaded, directLoads>>

---------------------------------------------------------------------------
(* Bounds of the model *)

\* catalog writes past the end of the array that the model follows
MaxOverrun == 6
\* DefineObjectMaterials runs the model follows
MaxMaterialBatches == 2
\* CreateGLTexture calls made directly by the host
MaxDirectLoads == 2

---------------------------------------------------------------------------
(* Program constants *)

\* capacity of m_textureIDs ("There are up to 16 slots")
MaxTextures == 16

MemTop == MaxTextures + MaxOverrun
Slots == 0 .. (MemTop - 1)

g_ModelName == "model"
g_ColorValueName == "objectColor"
g_TextureValueName == "objectTexture"
g_UseTextureName == "bUseTexture"
g_UseLightingName == "bUseLighting"

\* the files and tags LoadSceneTextures loads, in order
\* a variant of the texture list that registers the lid image as "lid"
SceneTexturesLowerCaseLid ==
    << <<"textures/Lid.png", "lid">>,
       <<"textures/Stone.png", "Stone">>,
       <<"textures/Pasta.png", "pasta">>,
       <<"textures/glass.png", "glass">>,
       <<"textures/jar.png", "jar">>,
       <<"textures/beanContainer.png", "beancontainer">>,
       <<"textures/beanContainer1.png", "beancontainer1">>,
       <<"textures/painting.png", "painting">>,
       <<"textures/table.png", "table">>,
       <<"textures/wall.png", "wall">>,
       <<"textures/plastic.png", "plastic">> >>

SceneTextures ==
    << <<"textures/Lid.png", "Lid">>,
       <<"textures/Stone.png", "Stone">>,
       <<"textures/Pasta.png", "pasta">>,
       <<"textures/glass.png", "glass">>,
       <<"textures/jar.png", "jar">>,
       <<"textures/beanContainer.png", "beancontainer">>,
       <<"textures/beanContainer1.png", "beancontainer1">>,
       <<"textures/painting.png", "painting">>,
       <<"textures/table.png", "table">>,
       <<"textures/wall.png", "wall">>,
       <<"textures/plastic.png", "plastic">> >>

Material(tag, d, s, sh) ==
    [tag |-> tag, diffuseColor |-> d, specularColor |-> s, shininess |-> <<sh>>]

\* the materials DefineObjectMaterials appends, in order (hundredths)
SceneMaterials ==
    << Material("plastic", <<80, 40, 80>>, <<20, 20, 20>>, 100),
       Material("wood",    <<60, 50, 20>>, <<10, 20, 20>>, 100),
       Material("metal",   <<30, 30, 20>>, <<70, 70, 80>>, 800),
       Material("glass",   <<30, 30, 20>>, <<90, 90, 80>>, 1000),
       Material("tile",    <<50, 50, 50>>, <<70, 70, 70>>, 600),
       Material("stone",   <<50, 50, 50>>, <<73, 30, 30>>, 600) >>

Light(fn, name, value) == [call |-> fn, name |-> name, value |-> value]

\* the uniform writes of SetupSceneLights after bUseLighting, in order (10^-5)
SceneLights ==
    << Light("setVec3Value", "pointLights[0].position", <<-2050000, 1000000, -1000000>>),
       Light("setVec3Value", "pointLights[0].direction", <<2050000, -1000000, 1000000>>),
       Light("setBoolValue", "pointLights[0].bUseDirection", <<TRUE>>),
       Light("setVec3Value", "pointLights[0].ambient", <<1000 * 51, 994 * 51, 750 * 51>>),
       Light("setVec3Value", "pointLights[0].diffuse", <<1000 * 56, 994 * 56, 750 * 56>>),
       Light("setVec3Value", "pointLights[0].specular", <<1000 * 54, 994 * 54, 750 * 54>>),
       Light("setFloatValue", "pointLights[0].focalStrength", <<10200000>>),
       Light("setFloatValue", "pointLights[0].specularIntensity", <<210000>>),
       Light("setBoolValue", "pointLights[0].bActive", <<TRUE>>),
       Light("setVec3Value", "pointLights[1].position", <<400000, 400000, 400000>>),
       Light("setBoolValue", "pointLights[1].bUseDirection", <<FALSE>>),
       Light("setVec3Value", "pointLights[1].ambient", <<600 * 50, 770 * 50, 900 * 50>>),
       Light("setVec3Value", "pointLights[1].diffuse", <<600 * 20, 770 * 20, 900 * 20>>),
       Light("setVec3Value", "pointLights[1].specular", <<600 * 0, 770 * 0, 900 * 0>>),
       Light("setFloatValue", "pointLights[1].focalStrength", <<1200000>>),
       Light("setFloatValue", "pointLights[1].specularIntensity", <<0>>),
       Light("setBoolValue", "pointLights[1].bActive", <<TRUE>>) >>

DrawCmd(type, scale, rotationDeg, translation, material, texture) ==
    [type |-> type, scale |-> scale, rotationDeg |-> rotationDeg,
     translation |-> translation, material |-> material, texture |-> texture]

\* the draw list of RenderScene (scale and translation in hundredths)
cmds ==
    << DrawCmd("Plane",    <<2000, 100, 1000>>, <<90, 0, 0>>,   <<0, 900, -1000>>,  "stone",   "wall"),
       DrawCmd("Plane",    <<2000, 100, 1000>>, <<0, 0, 0>>,    <<0, 0, 0>>,        "wood",    "table"),
       DrawCmd("Sphere",   <<30, 30, 30>>,      <<0, 0, 0>>,    <<-600, 30, -300>>, "stone",   "Stone"),
       DrawCmd("Cylinder", <<100, 250, 100>>,   <<0, 0, 0>>,    <<-300, 30, 0>>,    "glass",   "glass"),
       DrawCmd("Cylinder", <<300, 100, 300>>,   <<0, 0, 0>>,    <<100, 20, 98>>,    "plastic", "beancontainer1"),
       DrawCmd("Cylinder", <<300, 300, 300>>,   <<0, 2, 0>>,    <<100, 120, 98>>,   "plastic", "beancontainer"),
       DrawCmd("Cylinder", <<280, 50, 280>>,    <<0, 0, 0>>,    <<100, 420, 98>>,   "plastic", "plastic"),
       DrawCmd("Cylinder", <<150, 350, 150>>,   <<0, 0, 0>>,    <<600, 10, 0>>,     "glass",   "jar"),
       DrawCmd("Cylinder", <<100, 30, 100>>,    <<0, 0, 0>>,    <<600, 350, 0>>,    "plastic", "Lid"),
       DrawCmd("Box",      <<350, 1, 550>>,     <<90, 180, 0>>, <<600, 850, -1000>>, "plastic", "painting"),
       DrawCmd("Box",      <<150, 40, 300>>,    <<0, 80, 0>>,   <<300, 30, 550>>,   "plastic", "pasta"),
       DrawCmd("Box",      <<150, 40, 300>>,    <<0, 65, 0>>,   <<300, 60, 550>>,   "plastic", "pasta"),
       DrawCmd("Box",      <<150, 40, 300>>,    <<0, 65, 0>>,   <<300, 100, 550>>,  "plastic", "pasta") >>

UniformNames ==
    {g_ModelName, g_ColorValueName, g_TextureValueName, g_UseTextureName,
     g_UseLightingName, "UVscale", "material.diffuseColor",
     "material.specularColor", "material.shininess"}
    \cup {SceneLights[i].name : i \in 1 .. Len(SceneLights)}

\* the value of a uniform never written, and of an uninitialised local
Unset == << >>

Ev(call, name, value) == [call |-> call, name |-> name, value |-> value]

---------------------------------------------------------------------------
(* glm: 4x4 matrices as tuples of rows, rotations at multiples of 90 deg *)

Mod360(deg) == ((deg % 360) + 360) % 360

\* the angles whose sine and cosine are integers
ExactAngle(deg) == Mod360(deg) \in {0, 90, 180, 270}

Cos(deg) == CASE Mod360(deg) = 0 -> 1
              [] Mod360(deg) = 90 -> 0
              [] Mod360(deg) = 180 -> -1
              [] Mod360(deg) = 270 -> 0

Sin(deg) == CASE Mod360(deg) = 0 -> 0
              [] Mod360(deg) = 90 -> 1
              [] Mod360(deg) = 180 -> 0
              [] Mod360(deg) = 270 -> -1

\* one entry and one row of the product of two glm::mat4
MatEntry(A, B, i, j) ==
    A[i][1] * B[1][j] + A[i][2] * B[2][j] + A[i][3] * B[3][j] + A[i][4] * B[4][j]

MatRow(A, B, i) ==
    <<MatEntry(A, B, i, 1), MatEntry(A, B, i, 2), MatEntry(A, B, i, 3), MatEntry(A, B, i, 4)>>

\* operator* of glm::mat4
MatMul(A, B) == <<MatRow(A, B, 1), MatRow(A, B, 2), MatRow(A, B, 3), MatRow(A, B, 4)>>

\* glm::scale(v)
GlmScale(v) ==
    << <<v[1], 0, 0, 0>>,
       <<0, v[2], 0, 0>>,
       <<0, 0, v[3], 0>>,
       <<0, 0, 0, 1>> >>

\* glm::translate(v)
GlmTranslate(v) ==
    << <<1, 0, 0, v[1]>>,
       <<0, 1, 0, v[2]>>,
       <<0, 0, 1, v[3]>>,
       <<0, 0, 0, 1>> >>

\* glm::rotate(glm::radians(deg), axis) for the three unit axes
GlmRotate(deg, axis) ==
    LET c == Cos(deg)
        s == Sin(deg)
    IN  CASE axis = <<1, 0, 0>> ->
                << <<1, 0, 0, 0>>, <<0, c, -s, 0>>, <<0, s, c, 0>>, <<0, 0, 0, 1>> >>
          [] axis = <<0, 1, 0>> ->
                << <<c, 0, s, 0>>, <<0, 1, 0, 0>>, <<-s, 0, c, 0>>, <<0, 0, 0, 1>> >>
          [] axis = <<0, 0, 1>> ->
                << <<c, -s, 0, 0>>, <<s, c, 0, 0>>, <<0, 0, 1, 0>>, <<0, 0, 0, 1>> >>

\* a variant of ModelView that multiplies the rotations in the order X, Y, Z
ModelViewRotationsReversed(scaleXYZ, XrotationDegrees, YrotationDegrees, ZrotationDegrees, positionXYZ) ==
    MatMul(MatMul(MatMul(MatMul(GlmTranslate(positionXYZ),
                                GlmRotate(XrotationDegrees, <<1, 0, 0>>)),
                         GlmRotate(YrotationDegrees, <<0, 1, 0>>)),
                  GlmRotate(ZrotationDegrees, <<0, 0, 1>>)),
           GlmScale(scaleXYZ))

\* the matrix SetTransformations composes.  With an angle that is no
\* multiple of 90 degrees the product has no integer value: it is kept as
\* the unevaluated product of its five factors.
ModelView(scaleXYZ, XrotationDegrees, YrotationDegrees, ZrotationDegrees, positionXYZ) ==
    IF ExactAngle(XrotationDegrees) /\ ExactAngle(YrotationDegrees)
       /\ ExactAngle(ZrotationDegrees)
    THEN LET scale == GlmScale(scaleXYZ)
             rotationX == GlmRotate(XrotationDegrees, <<1, 0, 0>>)
             rotationY == GlmRotate(YrotationDegrees, <<0, 1, 0>>)
             rotationZ == GlmRotate(ZrotationDegrees, <<0, 0, 1>>)
             translation == GlmTranslate(positionXYZ)
         IN  MatMul(MatMul(MatMul(MatMul(translation, rotationZ), rotationY), rotationX), scale)
    ELSE <<"translation*rotationZ*rotationY*rotationX*scale", scaleXYZ,
           <<XrotationDegrees, YrotationDegrees, ZrotationDegrees>>, positionXYZ>>

---------------------------------------------------------------------------
(* Catalog lookups *)

RECURSIVE FindTextureIDFrom(_, _, _, _)
FindTextureIDFrom(textureIDs, loadedTextures, tag, index) ==
    IF index < loadedTextures
    THEN IF textureIDs[index].tag = tag
         THEN textureIDs[index].ID
         ELSE FindTextureIDFrom(textureIDs, loadedTextures, tag, index + 1)
    ELSE -1

\* FindTextureID(tag) on the catalog (textureIDs, loadedTextures)
FindTextureID(textureIDs, loadedTextures, tag) ==
    FindTextureIDFrom(textureIDs, loadedTextures, tag, 0)

\* a variant of FindTextureSlot that keeps searching: the last match wins
FindTextureSlotLastMatch(textureIDs, loadedTextures, tag) ==
    LET hits == {i \in 0 .. (loadedTextures - 1) : textureIDs[i].tag = tag}
    IN  IF hits = {} THEN -1 ELSE CHOOSE i \in hits : \A j \in hits : j <= i

RECURSIVE FindTextureSlotFrom(_, _, _, _)
FindTextureSlotFrom(textureIDs, loadedTextures, tag, index) ==
    IF index < loadedTextures
    THEN IF textureIDs[index].tag = tag
         THEN index
         ELSE FindTextureSlotFrom(textureIDs, loadedTextures, tag, index + 1)
    ELSE -1

\* FindTextureSlot(tag) on the catalog (textureIDs, loadedTextures)
FindTextureSlot(textureIDs, loadedTextures, tag) ==
    FindTextureSlotFrom(textureIDs, loadedTextures, tag, 0)

RECURSIVE FindMaterialFrom(_, _, _, _)
FindMaterialFrom(objectMaterials, tag, material, index) ==
    IF index < Len(objectMaterials)
    THEN IF objectMaterials[index + 1].tag = tag
         THEN [material EXCEPT
                  !.diffuseColor = objectMaterials[index + 1].diffuseColor,
                  !.specularColor = objectMaterials[index + 1].specularColor,
                  !.shininess = objectMaterials[index + 1].shininess]
         ELSE FindMaterialFrom(objectMaterials, tag, material, index + 1)
    ELSE material

\* a variant of FindMaterial that returns bFound
FindMaterialReturnsFound(objectMaterials, tag, material) ==
    [bReturn |-> \E i \in 1 .. Len(objectMaterials) : objectMaterials[i].tag = tag,
     material |-> FindMaterialFrom(objectMaterials, tag, material, 0)]

\* FindMaterial(tag, material): the value returned and the out-parameter
FindMaterial(objectMaterials, tag, material) ==
    IF Len(objectMaterials) = 0
    THEN [bReturn |-> FALSE, material |-> material]
    ELSE [bReturn |-> TRUE,
          material |-> FindMaterialFrom(objectMaterials, tag, material, 0)]

---------------------------------------------------------------------------
(* The operations, as functions of a world w: the state, with the oracle  *)
(* o of the current call.  Nothing executes after a fault.                 *)

Say(w, call, name, value) == [w EXCEPT !.log = Append(@, Ev(call, name, value))]

\* m_pShaderManager->fn(name, value), the pointer not tested by the caller:
\* through NULL the call is undefined, it faults or has no effect here
ShaderCall(w, fn, name, value) ==
    IF w.crashed
    THEN w
    ELSE IF w.m_pShaderManager
         THEN [Say(w, fn, name, value) EXCEPT !.uniforms[name] = value]
         ELSE [Say(w, fn, name, value) EXCEPT
                  !.ub = @ \cup {"null_deref"},
                  !.crashed = (w.o.null = "crash")]

\* m_textureIDs[m_loadedTextures] = {textureID, tag}; m_loadedTextures++.
\* Past the array the write is undefined: it faults, or it lands in the
\* memory behind the array, where later lookups read it back.
RegisterTexture(w, textureID, tag) ==
    LET index == w.m_loadedTextures
        inside == index < MaxTextures
        w1 == IF inside THEN w ELSE [w EXCEPT !.ub = @ \cup {"oob_write"}]
    IN  IF ~inside /\ w.o.oob = "crash"
        THEN [Say(w1, "register", tag, <<index>>) EXCEPT !.crashed = TRUE]
        ELSE [Say(w1, "register", tag, <<index>>) EXCEPT
                 !.m_textureIDs[index] = [ID |-> textureID, tag |-> tag],
                 !.m_loadedTextures = @ + 1]

\* the channel counts CreateGLTexture uploads
ChannelsSupported(colorChannels) == colorChannels \in {3, 4}

InternalFormat(colorChannels) == IF colorChannels = 3 THEN "GL_RGB8" ELSE "GL_RGBA8"

\* a variant of CreateGLTexture that registers the texture before it looks
\* at the channel count
CreateGLTextureEarlyRegister(w, filename, tag) ==
    IF w.crashed
    THEN w
    ELSE LET colorChannels == w.files[filename]
             w0 == Say(w, "stbi_load", filename, <<colorChannels>>)
         IN  IF colorChannels = 0
             THEN [w0 EXCEPT !.ret.value = <<FALSE>>]
             ELSE LET textureID == w0.glNextTexture
                      w1 == [Say(w0, "glGenTextures", "", <<textureID>>) EXCEPT
                                !.heapImages = @ + 1,
                                !.glNextTexture = @ + 1,
                                !.glUnitBinding[w0.glActiveUnit] = textureID]
                      w2 == RegisterTexture(w1, textureID, tag)
                  IN  IF w2.crashed
                      THEN w2
                      ELSE IF ~ChannelsSupported(colorChannels)
                           THEN [w2 EXCEPT !.ret.value = <<FALSE>>]
                           ELSE [w2 EXCEPT !.heapImages = @ - 1,
                                           !.glUnitBinding[w2.glActiveUnit] = 0,
                                           !.everLoaded = @ \cup {tag},
                                           !.ret.value = <<TRUE>>]

\* CreateGLTexture(filename, tag)
CreateGLTexture(w, filename, tag) ==
    IF w.crashed
    THEN w
    ELSE LET colorChannels == w.files[filename]
             w0 == Say(w, "stbi_load", filename, <<colorChannels>>)
         IN  IF colorChannels = 0
             THEN \* image == NULL: "Could not load image"
                  [w0 EXCEPT !.ret.value = <<FALSE>>]
             ELSE LET textureID == w0.glNextTexture
                      \* glGenTextures, glBindTexture on the active unit
                      w1 == [Say(w0, "glGenTextures", "", <<textureID>>) EXCEPT
                                !.heapImages = @ + 1,
                                !.glNextTexture = @ + 1,
                                !.glUnitBinding[w0.glActiveUnit] = textureID]
                  IN  IF ~ChannelsSupported(colorChannels)
                      THEN \* return false: image not freed, texture left bound
                           [w1 EXCEPT !.ret.value = <<FALSE>>]
                      ELSE LET w2 == Say(w1, "glTexImage2D",
                                         InternalFormat(colorChannels), <<textureID>>)
                               w3 == Say(w2, "glGenerateMipmap", "", <<textureID>>)
                               \* stbi_image_free, glBindTexture(GL_TEXTURE_2D, 0)
                               w4 == [Say(w3, "stbi_image_free", filename, << >>) EXCEPT
                                         !.heapImages = @ - 1,
                                         !.glUnitBinding[w3.glActiveUnit] = 0]
                               w5 == RegisterTexture(w4, textureID, tag)
                           IN  IF w5.crashed
                               THEN w5
                               ELSE [w5 EXCEPT !.everLoaded = @ \cup {tag},
                                               !.ret.value = <<TRUE>>]

RECURSIVE BindGLTexturesFrom(_, _)
BindGLTexturesFrom(w, i) ==
    IF ~w.crashed /\ i < w.m_loadedTextures
    THEN LET w1 == Say(w, "glActiveTexture", "", <<i>>)
             w2 == Say(w1, "glBindTexture", w.m_textureIDs[i].tag, <<w.m_textureIDs[i].ID>>)
         IN  BindGLTexturesFrom([w2 EXCEPT !.glActiveUnit = i,
                                           !.glUnitBinding[i] = w.m_textureIDs[i].ID],
                                i + 1)
    ELSE w

\* a variant of BindGLTextures whose loop starts at 1
BindGLTexturesFromOne(w) == IF w.crashed THEN w ELSE BindGLTexturesFrom(w, 1)

\* BindGLTextures()
BindGLTextures(w) == IF w.crashed THEN w ELSE BindGLTexturesFrom(w, 0)

\* SetTransformations(scaleXYZ, X, Y, Z, positionXYZ)
SetTransformations(w, scaleXYZ, XrotationDegrees, YrotationDegrees, ZrotationDegrees, positionXYZ) ==
    LET modelView == ModelView(scaleXYZ, XrotationDegrees, YrotationDegrees,
                               ZrotationDegrees, positionXYZ)
    IN  IF w.m_pShaderManager
        THEN ShaderCall(w, "setMat4Value", g_ModelName, modelView)
        ELSE w

\* SetShaderColor(r, g, b, a)
SetShaderColor(w, redColorValue, greenColorValue, blueColorValue, alphaValue) ==
    LET currentColor == <<redColorValue, greenColorValue, blueColorValue, alphaValue>>
    IN  IF w.m_pShaderManager
        THEN ShaderCall(ShaderCall(w, "setIntValue", g_UseTextureName, <<0>>),
                        "setVec4Value", g_ColorValueName, currentColor)
        ELSE w

\* SetShaderTexture(textureTag)
SetShaderTexture(w, textureTag) ==
    IF w.m_pShaderManager
    THEN LET w1 == ShaderCall(w, "setIntValue", g_UseTextureName, <<1>>)
             textureID == FindTextureSlot(w.m_textureIDs, w.m_loadedTextures, textureTag)
         IN  ShaderCall(w1, "setSampler2DValue", g_TextureValueName, <<textureID>>)
    ELSE w

\* SetTextureUVScale(u, v)
SetTextureUVScale(w, u, v) ==
    IF w.m_pShaderManager
    THEN ShaderCall(w, "setVec2Value", "UVscale", <<u, v>>)
    ELSE w

\* a read of a field of the local `material`: indeterminate when FindMaterial
\* did not assign it
ReadField(w, value, field) == IF value = Unset THEN w.o.garbage[field] ELSE value

\* SetShaderMaterial(materialTag)
SetShaderMaterial(w, materialTag) ==
    IF w.crashed \/ Len(w.m_objectMaterials) = 0
    THEN w
    ELSE LET material == [tag |-> "", diffuseColor |-> Unset,
                          specularColor |-> Unset, shininess |-> Unset]
             found == FindMaterial(w.m_objectMaterials, materialTag, material)
             m == found.material
             w0 == IF m.diffuseColor = Unset
                   THEN [w EXCEPT !.ub = @ \cup {"uninit_read"}]
                   ELSE w
         IN  IF found.bReturn
             THEN LET w1 == ShaderCall(w0, "setVec3Value", "material.diffuseColor",
                                       ReadField(w, m.diffuseColor, "diffuseColor"))
                      w2 == ShaderCall(w1, "setVec3Value", "material.specularColor",
                                       ReadField(w, m.specularColor, "specularColor"))
                  IN  ShaderCall(w2, "setFloatValue", "material.shininess",
                                 ReadField(w, m.shininess, "shininess"))
             ELSE w

RECURSIVE LoadSceneTexturesFrom(_, _)
LoadSceneTexturesFrom(w, i) ==
    IF ~w.crashed /\ i <= Len(SceneTextures)
    THEN LoadSceneTexturesFrom(CreateGLTexture(w, SceneTextures[i][1], SceneTextures[i][2]),
                               i + 1)
    ELSE w

\* LoadSceneTextures(): bReturn is assigned and never read
LoadSceneTextures(w) ==
    LET w1 == LoadSceneTexturesFrom(w, 1)
    IN  BindGLTextures([w1 EXCEPT !.ret.value = << >>])

RECURSIVE DefineObjectMaterialsFrom(_, _)
DefineObjectMaterialsFrom(w, i) ==
    IF ~w.crashed /\ i <= Len(SceneMaterials)
    THEN DefineObjectMaterialsFrom(
             [Say(w, "push_back", SceneMaterials[i].tag, << >>) EXCEPT
                 !.m_objectMaterials = Append(@, SceneMaterials[i])],
             i + 1)
    ELSE w

\* DefineObjectMaterials()
DefineObjectMaterials(w) == IF w.crashed THEN w ELSE DefineObjectMaterialsFrom(w, 1)

RECURSIVE SetupSceneLightsFrom(_, _)
SetupSceneLightsFrom(w, i) ==
    IF ~w.crashed /\ i <= Len(SceneLights)
    THEN SetupSceneLightsFrom(
             ShaderCall(w, SceneLights[i].call, SceneLights[i].name, SceneLights[i].value),
             i + 1)
    ELSE w

\* SetupSceneLights()
SetupSceneLights(w) ==
    SetupSceneLightsFrom(ShaderCall(w, "setBoolValue", g_UseLightingName, <<TRUE>>), 1)

\* m_basicMeshes->Load<kind>Mesh()
LoadMesh(w, kind) ==
    IF w.crashed
    THEN w
    ELSE [Say(w, "LoadMesh", kind, << >>) EXCEPT !.meshesLoaded = @ \cup {kind}]

\* a variant of PrepareScene that loads the meshes first
PrepareSceneMeshesFirst(w) ==
    LET w1 == LoadMesh(LoadMesh(LoadMesh(LoadMesh(w, "Plane"), "Cylinder"), "Box"), "Sphere")
    IN  SetupSceneLights(DefineObjectMaterials(LoadSceneTextures(w1)))

\* PrepareScene()
PrepareScene(w) ==
    LET w1 == LoadSceneTextures(w)
        w2 == DefineObjectMaterials(w1)
        w3 == SetupSceneLights(w2)
    IN  LoadMesh(LoadMesh(LoadMesh(LoadMesh(w3, "Plane"), "Cylinder"), "Box"), "Sphere")

\* m_basicMeshes->Draw<kind>Mesh()
DrawMesh(w, kind) == IF w.crashed THEN w ELSE Say(w, "DrawMesh", kind, << >>)

\* a variant of drawOne that uploads the texture before the material
drawOneTextureFirst(w, c) ==
    LET w1 == SetTransformations(w, c.scale, c.rotationDeg[1], c.rotationDeg[2],
                                 c.rotationDeg[3], c.translation)
        w2 == SetShaderTexture(w1, c.texture)
        w3 == SetShaderMaterial(w2, c.material)
    IN  DrawMesh(w3, c.type)

\* the lambda drawOne of RenderScene
drawOne(w, c) ==
    LET w1 == SetTransformations(w, c.scale, c.rotationDeg[1], c.rotationDeg[2],
                                 c.rotationDeg[3], c.translation)
        w2 == SetShaderMaterial(w1, c.material)
        w3 == SetShaderTexture(w2, c.texture)
    IN  DrawMesh(w3, c.type)

RECURSIVE RenderSceneFrom(_, _)
RenderSceneFrom(w, i) ==
    IF ~w.crashed /\ i <= Len(cmds) THEN RenderSceneFrom(drawOne(w, cmds[i]), i + 1) ELSE w

\* RenderScene()
RenderScene(w) ==
    IF ~w.m_basicMeshes
    THEN Say(w, "cerr", "ERROR: m_basicMeshes is null!", << >>)
    ELSE RenderSceneFrom(w, 1)

---------------------------------------------------------------------------
(* The state machine *)

\* image files the host passes to CreateGLTexture itself
HostFiles ==
    [f \in {"host/missing.png", "host/gray.png", "host/rgb.png", "host/rgba.png"} |->
        CASE f = "host/missing.png" -> 0
          [] f = "host/gray.png" -> 1
          [] f = "host/rgb.png" -> 3
          [] f = "host/rgba.png" -> 4]

HostTags == {"Lid", "label"}

SceneFiles == {SceneTextures[i][1] : i \in 1 .. Len(SceneTextures)}

\* scene files that may be missing or of an unsupported format
DefectFiles == {"textures/Lid.png", "textures/wall.png"}

\* the file systems the model starts from: every scene image decodable with
\* 3 or with 4 channels, or one of them missing (0) or greyscale (1)
Environments ==
    {[f \in SceneFiles \cup DOMAIN HostFiles |->
         IF f \in SceneFiles THEN c ELSE HostFiles[f]] : c \in {3, 4}}
    \cup
    {[f \in SceneFiles \cup DOMAIN HostFiles |->
         IF f = bad THEN c ELSE IF f \in SceneFiles THEN 3 ELSE HostFiles[f]] :
       bad \in DefectFiles, c \in {0, 1}}

ZeroFields ==
    [diffuseColor |-> <<0, 0, 0>>, specularColor |-> <<0, 0, 0>>, shininess |-> <<0>>]

\* what an indeterminate material field may read as: zeroes, or what a
\* material of the catalog left behind on the stack
Garbage ==
    {ZeroFields}
    \cup {[diffuseColor |-> m_objectMaterials[i].diffuseColor,
           specularColor |-> m_objectMaterials[i].specularColor,
           shininess |-> m_objectMaterials[i].shininess] :
            i \in 1 .. Len(m_objectMaterials)}

\* the outcomes of the undefined steps of one call that may load n textures
\* and read the fields g: a step that cannot happen in the call has one outcome
Oracles(n, g) ==
    [null : IF m_pShaderManager THEN {"ignored"} ELSE {"crash", "ignored"},
     oob : IF m_loadedTextures + n > MaxTextures THEN {"crash", "lands"} ELSE {"lands"},
     garbage : g]

\* the world at the start of a call of op(args)
Begin(o, op, args) ==
    [m_pShaderManager |-> m_pShaderManager, m_basicMeshes |-> m_basicMeshes,
     m_textureIDs |-> m_textureIDs, m_loadedTextures |-> m_loadedTextures,
     m_objectMaterials |-> m_objectMaterials, glNextTexture |-> glNextTexture,
     glActiveUnit |-> glActiveUnit, glUnitBinding |-> glUnitBinding,
     heapImages |-> heapImages, uniforms |-> uniforms,
     meshesLoaded |-> meshesLoaded, log |-> << >>,
     ret |-> [op |-> op, args |-> args, value |-> << >>],
     crashed |-> crashed, ub |-> ub, files |-> files, everLoaded |-> everLoaded,
     o |-> o]

\* the state at the end of the call
Commit(w) ==
    /\ m_pShaderManager' = w.m_pShaderManager
    /\ m_basicMeshes' = w.m_basicMeshes
    /\ m_textureIDs' = w.m_textureIDs
    /\ m_loadedTextures' = w.m_loadedTextures
    /\ m_objectMaterials' = w.m_objectMaterials
    /\ glNextTexture' = w.glNextTexture
    /\ glActiveUnit' = w.glActiveUnit
    /\ glUnitBinding' = w.glUnitBinding
    /\ heapImages' = w.heapImages
    /\ uniforms' = w.uniforms
    /\ meshesLoaded' = w.meshesLoaded
    /\ log' = w.log
    /\ ret' = w.ret
    /\ crashed' = w.crashed
    /\ ub' = w.ub
    /\ files' = w.files
    /\ everLoaded' = w.everLoaded

\* the count of loaded textures when the object is constructed: the member
\* is declared in SceneManager.h and the constructor does not assign it; the
\* catalog starts empty
LoadedTexturesAtConstruction == 0

\* SceneManager(pShaderManager): with or without a shader manager
Init ==
    /\ m_pShaderManager \in BOOLEAN
    /\ m_basicMeshes = TRUE
    /\ m_textureIDs = [i \in Slots |-> [ID |-> 0, tag |-> ""]]
    /\ m_loadedTextures = LoadedTexturesAtConstruction
    /\ m_objectMaterials = << >>
    /\ glNextTexture = 1
    /\ glActiveUnit = 0
    /\ glUnitBinding = [i \in Slots |-> 0]
    /\ heapImages = 0
    /\ uniforms = [n \in UniformNames |-> Unset]
    /\ meshesLoaded = {}
    /\ log = << >>
    /\ ret = [op |-> "SceneManager", args |-> << >>, value |-> << >>]
    /\ crashed = FALSE
    /\ ub = {}
    /\ files \in Environments
    /\ everLoaded = {}
    /\ directLoads = 0

\* room in the modelled memory for n more catalog entries
RoomFor(n) == m_loadedTextures + n <= MemTop

RoomForMaterials ==
    Len(m_objectMaterials) + Len(SceneMaterials) <= MaxMaterialBatches * Len(SceneMaterials)

CallCreateGLTexture(filename, tag) ==
    /\ ~crashed /\ RoomFor(1) /\ directLoads < MaxDirectLoads
    /\ directLoads' = directLoads + 1
    /\ \E o \in Oracles(1, {ZeroFields}) :
          \E w \in {CreateGLTexture(Begin(o, "CreateGLTexture", <<filename, tag>>), filename, tag)} : Commit(w)

CallBindGLTextures ==
    /\ ~crashed
    /\ UNCHANGED directLoads
    /\ \E o \in Oracles(0, {ZeroFields}) :
          \E w \in {BindGLTextures(Begin(o, "BindGLTextures", << >>))} : Commit(w)

CallLoadSceneTextures ==
    /\ ~crashed /\ RoomFor(Len(SceneTextures))
    /\ UNCHANGED directLoads
    /\ \E o \in Oracles(Len(SceneTextures), {ZeroFields}) :
          \E w \in {LoadSceneTextures(Begin(o, "LoadSceneTextures", << >>))} : Commit(w)

CallDefineObjectMaterials ==
    /\ ~crashed /\ RoomForMaterials
    /\ UNCHANGED directLoads
    /\ \E o \in Oracles(0, {ZeroFields}) :
          \E w \in {DefineObjectMaterials(Begin(o, "DefineObjectMaterials", << >>))} : Commit(w)

CallSetupSceneLights ==
    /\ ~crashed
    /\ UNCHANGED directLoads
    /\ \E o \in Oracles(0, {ZeroFields}) :
          \E w \in {SetupSceneLights(Begin(o, "SetupSceneLights", << >>))} : Commit(w)

CallPrepareScene ==
    /\ ~crashed /\ RoomFor(Len(SceneTextures)) /\ RoomForMaterials
    /\ UNCHANGED directLoads
    /\ \E o \in Oracles(Len(SceneTextures), {ZeroFields}) :
          \E w \in {PrepareScene(Begin(o, "PrepareScene", << >>))} : Commit(w)

CallRenderScene ==
    /\ ~crashed
    /\ UNCHANGED directLoads
    /\ \E o \in Oracles(0, {ZeroFields}) :
          \E w \in {RenderScene(Begin(o, "RenderScene", << >>))} : Commit(w)

CallSetTransformations(scaleXYZ, rot, positionXYZ) ==
    /\ ~crashed
    /\ UNCHANGED directLoads
    /\ \E o \in Oracles(0, {ZeroFields}) :
          \E w \in {SetTransformations(
                     Begin(o, "SetTransformations", <<scaleXYZ, rot, positionXYZ>>),
                     scaleXYZ, rot[1], rot[2], rot[3], positionXYZ)} : Commit(w)

CallSetShaderColor(color) ==
    /\ ~crashed
    /\ UNCHANGED directLoads
    /\ \E o \in Oracles(0, {ZeroFields}) :
          \E w \in {SetShaderColor(Begin(o, "SetShaderColor", color),
                                color[1], color[2], color[3], color[4])} : Commit(w)

CallSetShaderTexture(textureTag) ==
    /\ ~crashed
    /\ UNCHANGED directLoads
    /\ \E o \in Oracles(0, {ZeroFields}) :
          \E w \in {SetShaderTexture(Begin(o, "SetShaderTexture", <<textureTag>>), textureTag)} : Commit(w)

CallSetTextureUVScale(u, v) ==
    /\ ~crashed
    /\ UNCHANGED directLoads
    /\ \E o \in Oracles(0, {ZeroFields}) :
          \E w \in {SetTextureUVScale(Begin(o, "SetTextureUVScale", <<u, v>>), u, v)} : Commit(w)

CallSetShaderMaterial(materialTag) ==
    /\ ~crashed
    /\ UNCHANGED directLoads
    /\ \E o \in Oracles(0, Garbage) :
          \E w \in {SetShaderMaterial(Begin(o, "SetShaderMaterial", <<materialTag>>), materialTag)} : Commit(w)

\* the scene's life: preparation, in one call or step by step, and frames
Next ==
    \/ CallLoadSceneTextures
    \/ CallDefineObjectMaterials
    \/ CallSetupSceneLights
    \/ CallPrepareScene
    \/ CallRenderScene

Spec == Init /\ [][Next]_vars

\* the texture catalog: loads by the host, the scene's loads, binding
NextTextures ==
    \/ \E f \in DOMAIN HostFiles, t \in HostTags : CallCreateGLTexture(f, t)
    \/ CallBindGLTextures
    \/ CallLoadSceneTextures

SpecTextures == Init /\ [][NextTextures]_vars

\* arguments of the uniform uploads the host makes itself
ApplyMaterialTags == {"stone", "wood", "brick"}
ApplyTextureTags == {"label", "canvas"}
ApplyColors == {<<100, 0, 0, 100>>}
ApplyTilings == {<<200, 100>>}
ApplyTransforms == {<<(<<2, 2, 2>>), (<<0, 0, 90>>), (<<1, 0, 0>>)>>}

\* every scene image present, with 3 channels
InitApply == Init /\ \A f \in SceneFiles : files[f] = 3

\* the uniform uploads, on a material catalog that grows
NextApply ==
    \/ CallDefineObjectMaterials
    \/ \E t \in ApplyMaterialTags : CallSetShaderMaterial(t)
    \/ \E t \in ApplyTextureTags : CallSetShaderTexture(t)
    \/ \E c \in ApplyColors : CallSetShaderColor(c)
    \/ \E t \in ApplyTilings : CallSetTextureUVScale(t[1], t[2])
    \/ \E a \in ApplyTransforms : CallSetTransformations(a[1], a[2], a[3])

SpecApply == InitApply /\ [][NextApply]_vars

\* arguments of SetTransformations with an integer model matrix
TransformScales == {<<1, 1, 1>>, <<2, 2, 2>>, <<2, 3, 5>>}
TransformAngles == {0, 90, 180, 270}
TransformPositions == {<<0, 0, 0>>, <<1, 0, 0>>, <<7, -4, 3>>}

NextTransform ==
    \E s \in TransformScales, x \in TransformAngles, y \in TransformAngles,
       z \in TransformAngles, p \in TransformPositions :
        CallSetTransformations(s, <<x, y, z>>, p)

SpecTransform == InitApply /\ [][NextTransform]_vars

---------------------------------------------------------------------------
(* Properties *)

MeshKinds == {"Plane", "Cylinder", "Box", "Sphere"}

\* the smallest index of a material with this tag, 0 when there is none
FirstMaterial(tag) ==
    IF \E i \in 1 .. Len(m_objectMaterials) : m_objectMaterials[i].tag = tag
    THEN CHOOSE i \in 1 .. Len(m_objectMaterials) :
            /\ m_objectMaterials[i].tag = tag
            /\ \A j \in 1 .. (i - 1) : m_objectMaterials[j].tag # tag
    ELSE 0

\* the smallest catalog index with this tag, -1 when there is none
FirstTexture(tag) ==
    IF \E i \in 0 .. (m_loadedTextures - 1) : m_textureIDs[i].tag = tag
    THEN CHOOSE i \in 0 .. (m_loadedTextures - 1) :
            /\ m_textureIDs[i].tag = tag
            /\ \A j \in 0 .. (i - 1) : m_textureIDs[j].tag # tag
    ELSE -1

Prepared == meshesLoaded = MeshKinds

\* the mesh kinds of the 13 draw calls, in order
DrawOrder ==
    <<"Plane", "Plane", "Sphere",
      "Cylinder", "Cylinder", "Cylinder", "Cylinder", "Cylinder", "Cylinder",
      "Box", "Box", "Box", "Box">>

\* the seven calls of the k-th draw command, at log[7(k-1)+1 .. 7k]:
\* transform, material (three uniforms), texture (two uniforms), draw
DrawGroup(k) ==
    LET b == 7 * (k - 1)
        c == cmds[k]
        m == m_objectMaterials[FirstMaterial(c.material)]
    IN  /\ FirstMaterial(c.material) # 0
        /\ log[b + 1] = Ev("setMat4Value", "model",
                           ModelView(c.scale, c.rotationDeg[1], c.rotationDeg[2],
                                     c.rotationDeg[3], c.translation))
        /\ log[b + 2] = Ev("setVec3Value", "material.diffuseColor", m.diffuseColor)
        /\ log[b + 3] = Ev("setVec3Value", "material.specularColor", m.specularColor)
        /\ log[b + 4] = Ev("setFloatValue", "material.shininess", m.shininess)
        /\ log[b + 5] = Ev("setIntValue", "bUseTexture", <<1>>)
        /\ log[b + 6] = Ev("setSampler2DValue", "objectTexture", <<FirstTexture(c.texture)>>)
        /\ log[b + 7] = Ev("DrawMesh", DrawOrder[k], << >>)

\* C1: once PrepareScene has run, with a shader manager and the mesh
\* library present, a RenderScene call makes exactly 13 draw calls, in the
\* order Plane, Plane, Sphere, Cylinder x6, Box x4, and each draw call comes
\* right after one transform upload, one material upload and one texture
\* upload of the same command, in that order.
C1_RenderIssuesThirteenDraws ==
    (ret.op = "RenderScene" /\ Prepared /\ m_pShaderManager /\ m_basicMeshes)
    => /\ Len(log) = 7 * 13
       /\ Len(cmds) = 13
       /\ \A k \in 1 .. 13 : DrawGroup(k)
       /\ Cardinality({i \in 1 .. Len(log) : log[i].call = "DrawMesh"}) = 13

C1_Witness ==
    /\ ret.op = "RenderScene" /\ Prepared /\ m_pShaderManager /\ m_basicMeshes
    /\ ~crashed
    /\ Len(log) = 91
    /\ log[91] = Ev("DrawMesh", "Box", << >>)

\* the step of PrepareScene a logged call belongs to
Phase(e) ==
    CASE e.call \in {"stbi_load", "glGenTextures", "glTexImage2D", "glGenerateMipmap",
                     "stbi_image_free", "register"} -> 1
      [] e.call \in {"glActiveTexture", "glBindTexture"} -> 2
      [] e.call = "push_back" -> 3
      [] e.call \in {"setBoolValue", "setVec3Value", "setFloatValue"} -> 4
      [] e.call = "LoadMesh" -> 5
      [] OTHER -> 0

\* the logged calls of one phase, in order
OfPhase(l, ph) == SelectSeq(l, LAMBDA e : Phase(e) = ph)

\* C7: PrepareScene runs LoadSceneTextures (every load, then the binding),
\* DefineObjectMaterials, SetupSceneLights and then loads the plane, cylinder,
\* box and sphere meshes, each once: no material is defined before the last
\* texture load, no light uniform is written before the last material is
\* defined, no mesh is loaded before the last light uniform is written.  A
\* run that faults makes a prefix of these calls.
C7_PrepareSceneOrder ==
    (ret.op = "PrepareScene")
    => /\ \A i \in 1 .. Len(log) : Phase(log[i]) \in 1 .. 5
       /\ \A i \in 1 .. Len(log) : \A j \in i .. Len(log) : Phase(log[i]) <= Phase(log[j])
       /\ ~crashed =>
            /\ LET loads == SelectSeq(log, LAMBDA e : e.call = "stbi_load")
               IN  /\ Len(loads) = 11
                   /\ \A i \in 1 .. 11 : loads[i].name = SceneTextures[i][1]
            /\ Len(OfPhase(log, 2)) = 2 * m_loadedTextures
            /\ LET mats == OfPhase(log, 3)
               IN  mats = [i \in 1 .. 6 |->
                              Ev("push_back",
                                 <<"plastic", "wood", "metal", "glass", "tile", "stone">>[i],
                                 << >>)]
            /\ LET lights == OfPhase(log, 4)
               IN  /\ Len(lights) = 18
                   /\ lights[1] = Ev("setBoolValue", "bUseLighting", <<TRUE>>)
                   /\ lights[18] = Ev("setBoolValue", "pointLights[1].bActive", <<TRUE>>)
            /\ OfPhase(log, 5) = <<Ev("LoadMesh", "Plane", << >>),
                                   Ev("LoadMesh", "Cylinder", << >>),
                                   Ev("LoadMesh", "Box", << >>),
                                   Ev("LoadMesh", "Sphere", << >>)>>

C7_Witness ==
    /\ ret.op = "PrepareScene" /\ ~crashed
    /\ Prepared
    /\ m_loadedTextures = 11
    /\ Len(m_objectMaterials) = 6
    /\ uniforms["pointLights[1].bActive"] = <<TRUE>>

\* C5 (as claimed): with no shader manager attached no operation faults and
\* none calls through the null pointer.
C5_NullShaderIsSafe ==
    ~m_pShaderManager => (~crashed /\ "null_deref" \notin ub)

\* C9 (as claimed): the catalog never holds more than 16 entries and every
\* entry is written at an index in 0..15.
C9_CatalogWithinCapacity ==
    /\ m_loadedTextures \in 0 .. MaxTextures
    /\ "oob_write" \notin ub

\* the catalog as the lookups see it
CatalogUnchanged ==
    /\ m_loadedTextures' = m_loadedTextures
    /\ \A i \in Slots : m_textureIDs'[i] = m_textureIDs[i]

\* the tags of the scene files LoadSceneTextures cannot load
FailingSceneTags ==
    {SceneTextures[i][2] : i \in {k \in 1 .. Len(SceneTextures) :
                                     files[SceneTextures[k][1]] \notin {3, 4}}}

\* C2: a CreateGLTexture call that returns false, the image not decoded or
\* its channel count outside {3,4}, leaves the catalog as it was: the count
\* and every entry unchanged, no entry with the requested tag added.  The
\* same holds of each failing load inside LoadSceneTextures: the entries it
\* adds are those of the files that load.
C2_FailedLoadLeavesCatalog ==
    [][/\ (ret'.op = "CreateGLTexture" /\ ret'.value = <<FALSE>>)
          => /\ files[ret'.args[1]] \notin {3, 4}
             /\ CatalogUnchanged
       /\ (ret'.op = "CreateGLTexture" /\ files[ret'.args[1]] \notin {3, 4})
          => ret'.value = <<FALSE>>
       /\ (ret'.op = "LoadSceneTextures")
          => /\ \A i \in 0 .. (m_loadedTextures - 1) : m_textureIDs'[i] = m_textureIDs[i]
             /\ \A i \in m_loadedTextures .. (m_loadedTextures' - 1) :
                    m_textureIDs'[i].tag \notin FailingSceneTags
             /\ ~crashed' =>
                  m_loadedTextures' - m_loadedTextures
                     = Len(SceneTextures) - Cardinality(FailingSceneTags)
      ]_vars

C2_Witness ==
    /\ ret.op = "CreateGLTexture" /\ ret.value = <<FALSE>>
    /\ files[ret.args[1]] = 1
    /\ m_loadedTextures > 0
    /\ \A i \in 0 .. (m_loadedTextures - 1) : m_textureIDs[i].tag # ret.args[2]

LookupTags ==
    {SceneTextures[i][2] : i \in 1 .. Len(SceneTextures)} \cup HostTags \cup {"nosuch"}

\* C3: for every tag t, FindTextureSlot(t) is the smallest catalog index
\* whose entry has tag t and FindTextureID(t) is that entry's handle, both
\* non-negative, if some CreateGLTexture call returned true for t; both are
\* -1 otherwise.  A later load does not change the result for a tag that is
\* found (first match wins).
C3_LookupFirstMatch ==
    [][\A t \in LookupTags :
          LET slot == FindTextureSlot(m_textureIDs, m_loadedTextures, t)
              slot2 == FindTextureSlot(m_textureIDs', m_loadedTextures', t)
              id == FindTextureID(m_textureIDs, m_loadedTextures, t)
              id2 == FindTextureID(m_textureIDs', m_loadedTextures', t)
          IN  /\ IF t \in everLoaded'
                 THEN /\ slot2 \in 0 .. (m_loadedTextures' - 1)
                      /\ m_textureIDs'[slot2].tag = t
                      /\ \A j \in 0 .. (slot2 - 1) : m_textureIDs'[j].tag # t
                      /\ id2 = m_textureIDs'[slot2].ID
                      /\ id2 >= 0
                 ELSE slot2 = -1 /\ id2 = -1
              /\ t \in everLoaded => (slot2 = slot /\ id2 = id)
      ]_vars

C3_Witness ==
    /\ FindTextureSlot(m_textureIDs, m_loadedTextures, "Lid") = 0
    /\ FindTextureID(m_textureIDs, m_loadedTextures, "Lid") = m_textureIDs[0].ID
    /\ \E i \in 1 .. (m_loadedTextures - 1) :
          m_textureIDs[i].tag = "Lid" /\ m_textureIDs[i].ID # m_textureIDs[0].ID
    /\ FindTextureSlot(m_textureIDs, m_loadedTextures, "nosuch") = -1

\* the tags of the scene's textures, by catalog index
SceneTagOrder ==
    <<"Lid", "Stone", "pasta", "glass", "jar", "beancontainer", "beancontainer1",
      "painting", "table", "wall", "plastic">>

\* C6: from an empty catalog, every image loading, LoadSceneTextures leaves
\* exactly 11 entries, with the tags Lid, Stone, pasta, glass, jar,
\* beancontainer, beancontainer1, painting, table, wall, plastic at the
\* indices 0..10, and its BindGLTextures binds the texture of entry i to
\* texture unit i for every i in 0..10, after the 11 loads, and binds no
\* other unit.
C6_SceneTexturesLoadedAndBound ==
    [][(/\ ret'.op = "LoadSceneTextures"
        /\ m_loadedTextures = 0
        /\ \A f \in SceneFiles : files[f] \in {3, 4})
       => /\ m_loadedTextures' = 11
          /\ \A i \in 0 .. 10 :
                /\ m_textureIDs'[i].tag = SceneTagOrder[i + 1]
                /\ m_textureIDs'[i].ID > 0
                /\ glUnitBinding'[i] = m_textureIDs'[i].ID
                /\ \A j \in 0 .. 10 : j # i => m_textureIDs'[j].ID # m_textureIDs'[i].ID
          /\ \A u \in Slots \ (0 .. 10) : glUnitBinding'[u] = 0
          /\ LET binds == {i \in 1 .. Len(log') : Phase(log'[i]) = 2}
                 loads == {i \in 1 .. Len(log') : Phase(log'[i]) = 1}
             IN  /\ Cardinality({i \in binds : log'[i].call = "glBindTexture"}) = 11
                 /\ Cardinality({i \in loads : log'[i].call = "register"}) = 11
                 /\ \A b \in binds, l \in loads : l < b
      ]_vars

C6_Witness ==
    /\ ret.op = "LoadSceneTextures"
    /\ m_loadedTextures = 11
    /\ \A f \in SceneFiles : files[f] \in {3, 4}
    /\ glUnitBinding[10] = m_textureIDs[10].ID
    /\ m_textureIDs[10].tag = "plastic"
    /\ heapImages > 0

\* an out-parameter that holds values of its own before the call
TestOut ==
    [tag |-> "out", diffuseColor |-> <<1, 2, 3>>, specularColor |-> <<4, 5, 6>>,
     shininess |-> <<7>>]

MaterialLookupTags ==
    {"plastic", "wood", "metal", "glass", "tile", "stone", "brick", "Stone", ""}

MaterialUniforms == {"material.diffuseColor", "material.specularColor", "material.shininess"}

\* C4: FindMaterial(tag, out) returns false exactly when the material catalog
\* is empty; on a catalog that is not empty it returns true for every tag,
\* with diffuse, specular and shininess of the first entry with that tag
\* copied into out, and out left as it was when no entry has the tag.  After
\* DefineObjectMaterials "stone" yields diffuse (0.5,0.5,0.5), specular
\* (0.73,0.3,0.3), shininess 6.0 and "wood" yields diffuse (0.6,0.5,0.2); and
\* SetShaderMaterial uploads what FindMaterial yields for a tag that matches.
C4_FindMaterial ==
    /\ \A t \in MaterialLookupTags :
          LET r == FindMaterial(m_objectMaterials, t, TestOut)
              k == FirstMaterial(t)
          IN  /\ r.bReturn = (Len(m_objectMaterials) # 0)
              /\ IF k # 0
                 THEN r.material = [tag |-> "out",
                                    diffuseColor |-> m_objectMaterials[k].diffuseColor,
                                    specularColor |-> m_objectMaterials[k].specularColor,
                                    shininess |-> m_objectMaterials[k].shininess]
                 ELSE r.material = TestOut
    /\ Len(m_objectMaterials) # 0 =>
          /\ FindMaterial(m_objectMaterials, "stone", TestOut).material
                = [tag |-> "out", diffuseColor |-> <<50, 50, 50>>,
                   specularColor |-> <<73, 30, 30>>, shininess |-> <<600>>]
          /\ FindMaterial(m_objectMaterials, "wood", TestOut).material.diffuseColor
                = <<60, 50, 20>>
    /\ (ret.op = "SetShaderMaterial" /\ m_pShaderManager /\ FirstMaterial(ret.args[1]) # 0) =>
          LET m == FindMaterial(m_objectMaterials, ret.args[1], TestOut).material
          IN  log = <<Ev("setVec3Value", "material.diffuseColor", m.diffuseColor),
                      Ev("setVec3Value", "material.specularColor", m.specularColor),
                      Ev("setFloatValue", "material.shininess", m.shininess)>>

C4_Witness ==
    /\ ret.op = "SetShaderMaterial" /\ ret.args = <<"stone">>
    /\ uniforms["material.specularColor"] = <<73, 30, 30>>
    /\ Len(m_objectMaterials) = 12
    /\ FindMaterial(m_objectMaterials, "brick", TestOut) = [bReturn |-> TRUE, material |-> TestOut]

\* C10 (as claimed): SetShaderMaterial with a tag that no entry of a
\* non-empty material catalog has is a no-op: it writes none of the
\* uniforms material.diffuseColor, material.specularColor,
\* material.shininess, and raises no error (stated with a shader manager
\* attached).
C10_UnmatchedMaterialIsNoOp ==
    (ret.op = "SetShaderMaterial" /\ m_pShaderManager
        /\ Len(m_objectMaterials) # 0 /\ FirstMaterial(ret.args[1]) = 0)
    => /\ \A i \in 1 .. Len(log) : log[i].name \notin MaterialUniforms
       /\ "uninit_read" \notin ub

\* the steps a local point goes through, one at a time
ScalePoint(p, s) == <<p[1] * s[1], p[2] * s[2], p[3] * s[3]>>
RotateXPoint(p, deg) ==
    <<p[1], Cos(deg) * p[2] - Sin(deg) * p[3], Sin(deg) * p[2] + Cos(deg) * p[3]>>
RotateYPoint(p, deg) ==
    <<Cos(deg) * p[1] + Sin(deg) * p[3], p[2], Cos(deg) * p[3] - Sin(deg) * p[1]>>
RotateZPoint(p, deg) ==
    <<Cos(deg) * p[1] - Sin(deg) * p[2], Sin(deg) * p[1] + Cos(deg) * p[2], p[3]>>
TranslatePoint(p, t) == <<p[1] + t[1], p[2] + t[2], p[3] + t[3]>>

\* the image of the point p under the 4x4 matrix M
MatPoint(M, p) ==
    <<M[1][1] * p[1] + M[1][2] * p[2] + M[1][3] * p[3] + M[1][4],
      M[2][1] * p[1] + M[2][2] * p[2] + M[2][3] * p[3] + M[2][4],
      M[3][1] * p[1] + M[3][2] * p[2] + M[3][3] * p[3] + M[3][4]>>

TestPoints == {<<1, 0, 0>>, <<0, 1, 0>>, <<0, 0, 1>>, <<1, 2, 3>>}

\* C8: the model matrix SetTransformations uploads maps a local point to the
\* point scaled, then rotated about X, then about Y, then about Z, then
\* translated.  With scale (2,2,2), no rotation, translation (1,0,0) the
\* point (1,0,0) goes to (3,0,0); with scale (1,1,1), rotation (0,0,90),
\* no translation the point (1,0,0) goes to (0,1,0).
C8_ModelMatrix ==
    (ret.op = "SetTransformations" /\ m_pShaderManager)
    => LET s == ret.args[1]
           r == ret.args[2]
           t == ret.args[3]
           M == uniforms["model"]
       IN  /\ log = <<Ev("setMat4Value", "model", M)>>
           /\ \A p \in TestPoints :
                 MatPoint(M, p)
                    = TranslatePoint(
                         RotateZPoint(
                            RotateYPoint(RotateXPoint(ScalePoint(p, s), r[1]), r[2]),
                            r[3]),
                         t)
           /\ M[4] = <<0, 0, 0, 1>>
           /\ (s = <<2, 2, 2>> /\ r = <<0, 0, 0>> /\ t = <<1, 0, 0>>)
                 => MatPoint(M, <<1, 0, 0>>) = <<3, 0, 0>>
           /\ (s = <<1, 1, 1>> /\ r = <<0, 0, 90>> /\ t = <<0, 0, 0>>)
                 => MatPoint(M, <<1, 0, 0>>) = <<0, 1, 0>>

C8_Witness ==
    /\ ret.op = "SetTransformations" /\ m_pShaderManager
    /\ ret.args = <<(<<2, 3, 5>>), (<<90, 180, 270>>), (<<7, -4, 3>>)>>
    /\ uniforms["model"] # Unset
    /\ MatPoint(uniforms["model"], <<1, 2, 3>>) # <<1, 2, 3>>

\* the catalogs as one PrepareScene leaves them when every image loads
PreparedOnce ==
    /\ ~crashed
    /\ Prepared
    /\ \A f \in SceneFiles : files[f] \in {3, 4}
    /\ m_loadedTextures = 11
    /\ Len(m_objectMaterials) = 6

\* the material tags the draw list uses
UsedMaterialTags == {cmds[k].material : k \in 1 .. Len(cmds)}

\* C11: after one PrepareScene in which all 11 texture loads succeed, every
\* command of the draw list resolves: its texture tag is found at a slot in
\* 0..10 and that unit is bound to the texture registered there, and its
\* material tag is the tag of a defined material (only plastic, wood, glass
\* and stone are used); a RenderScene then never uploads -1 as the sampler
\* unit and never uploads a material that was not matched.
C11_DrawListResolves ==
    PreparedOnce
    => /\ \A k \in 1 .. Len(cmds) :
            LET slot == FindTextureSlot(m_textureIDs, m_loadedTextures, cmds[k].texture)
            IN  /\ slot \in 0 .. 10
                /\ m_textureIDs[slot].tag = cmds[k].texture
                /\ glUnitBinding[slot] = m_textureIDs[slot].ID
                /\ glUnitBinding[slot] =
                       FindTextureID(m_textureIDs, m_loadedTextures, cmds[k].texture)
                /\ \E i \in 1 .. Len(m_objectMaterials) :
                       m_objectMaterials[i].tag = cmds[k].material
       /\ UsedMaterialTags = {"plastic", "wood", "glass", "stone"}
       /\ (ret.op = "RenderScene" /\ m_pShaderManager) =>
            /\ "uninit_read" \notin ub
            /\ \A i \in 1 .. Len(log) :
                  /\ log[i].name = g_TextureValueName => log[i].value[1] \in 0 .. 10
                  /\ log[i].name \in MaterialUniforms =>
                        \E j \in 1 .. Len(m_objectMaterials) :
                            log[i].value \in {m_objectMaterials[j].diffuseColor,
                                              m_objectMaterials[j].specularColor,
                                              m_objectMaterials[j].shininess}

C11_Witness ==
    /\ PreparedOnce
    /\ ret.op = "RenderScene" /\ m_pShaderManager
    /\ Len(log) = 91
    /\ log[63] = Ev("DrawMesh", "Cylinder", << >>)
    /\ log[62] = Ev("setSampler2DValue", g_TextureValueName, <<0>>)
    /\ uniforms[g_TextureValueName] = <<2>>

\* the texture names glGenTextures has handed out
GeneratedTextures == 1 .. (glNextTexture - 1)

\* the texture names the catalog holds
RegisteredTextures == {m_textureIDs[i].ID : i \in 0 .. (m_loadedTextures - 1)}

\* C12 (as claimed): when a CreateGLTexture call has returned, no decoded
\* pixel buffer is still allocated and every texture name generated so far is
\* registered in the catalog, whatever the channel count of the image was.
C12_LoadReleasesResources ==
    ~crashed => /\ heapImages = 0
                /\ GeneratedTextures \subseteq RegisteredTextures

====
